---------------------------- MODULE Spec2Model ----------------------------
(***************************************************************************)
(* A model of the tRPC health feature and of the server-side request /     *)
(* hydration bridge of the t4 starter:                                     *)
(*   - the procedure registry (appRouter -> healthRouter) with the three   *)
(*     health procedures, their zod input schema and their handlers;       *)
(*   - the bridge: getQueryClient (React cache over makeQueryClient),      *)
(*     prefetch, HydrateClient, the page handler and the client component. *)
(***************************************************************************)
EXTENDS Integers, Sequences, FiniteSets, TLC

\* ------------------------------------------------------------------ bounds
\* Number of server renders that may be in flight together.
NumRenders == 2
\* Number of prefetch calls the page handlers issue in all.
MaxPrefetch == 2
\* Number of direct procedure calls (caller / network endpoint) explored.
MaxCalls == 2
\* Number of clock steps explored after process start.
MaxTicks == 4
\* Milliseconds one clock step advances Date.now() by.
TickMs == 500

\* ------------------------------------------------------------- JS values
Undefined == [t |-> "undefined"]
Str(s) == [t |-> "string", v |-> s]
Num(n) == [t |-> "number", n |-> n]
\* An object literal with the one property the schema knows, echo.
Obj(e) == [t |-> "object", echo |-> e]

\* The inputs a call is tried with: no input at all, an object without
\* echo, an object with a string echo, an object whose echo is no string,
\* and a value that is no object.
Inputs == { Undefined, Obj(Undefined), Obj(Str("hi")), Obj(Num(42)), Str("hi") }

\* ------------------------------------------------------- schema (zod)
\* pingInputSchema = z.object({ echo: z.string().optional() }).
\* z.string().optional(): undefined or a string.
EchoValid(e) == e.t = "undefined" \/ e.t = "string"

\* safeParse of pingInputSchema: success with the parsed object, or the
\* path of the first issue (<<>> is the root: the input itself is no object).
pingInputSchema(input) ==
    IF input.t # "object"
    THEN [success |-> FALSE, issuePath |-> <<>>]
    ELSE IF ~EchoValid(input.echo)
         THEN [success |-> FALSE, issuePath |-> <<"echo">>]
         ELSE [success |-> TRUE, data |-> Obj(input.echo)]

\* ------------------------------------------------- state of the process
VARIABLES
    startTime,      \* Date.now() when the health router module was loaded
    now,            \* Date.now()
    envVersion,     \* process.env.npm_package_version
    handlerCalls,   \* per procedure, how often its handler was invoked
    consoleLog,     \* the lines console.log has written
    calls,          \* number of direct calls made so far
    lastCall,       \* the last direct call: path, input, result
    lastCheck,      \* the result of the last health.check call, if any
    prevCheck       \* the result of the health.check call before it

procVars == <<startTime, now, envVersion, handlerCalls, consoleLog, calls,
              lastCall, lastCheck, prevCheck>>

\* ---------------------------------------------------- state of the bridge
VARIABLES
    memo,           \* React cache: per scope, the memoized query client
    nextClient,     \* number of query clients makeQueryClient has made
    caches,         \* per query client, its query cache: key -> entry
    pc,             \* per render: "page", "hydrated" (output sent), "mounted"
    issued,         \* per render, the keys its page handler prefetched
    returned,       \* per render, the clients getQueryClient() returned to it
    pageFailed,     \* per render, whether an error reached the page handler
    snapshot,       \* per render, the dehydrated state HydrateClient embedded
    client          \* per render, the browser's cache after mount: key -> status

bridgeVars == <<memo, nextClient, caches, pc, issued, returned, pageFailed,
                snapshot, client>>

vars == <<procVars, bridgeVars>>

MsPerSecond == 1000
DefaultVersion == "0.0.1"
NoCall == [path |-> "none"]
NoResult == [ok |-> FALSE, code |-> "NONE"]

\* --------------------------------------------------- the health router
\* Mutant: the uptime subtraction reversed.
CheckHandlerReversed ==
    [status |-> "ok",
     timestamp |-> now,
     version |-> IF envVersion = Undefined THEN DefaultVersion ELSE envVersion.v,
     uptime |-> (startTime - now) \div MsPerSecond]

\* check: baseProcedure.query(() => ...)
CheckHandler ==
    [status |-> "ok",
     timestamp |-> now,
     version |-> IF envVersion = Undefined THEN DefaultVersion ELSE envVersion.v,
     uptime |-> (now - startTime) \div MsPerSecond]

\* Mutant: the echo dropped from the result.
PingHandlerNoEcho(input) == [message |-> "pong", echo |-> Undefined]

\* ping: baseProcedure.input(pingInputSchema).query(({input}) => ...)
PingHandler(input) == [message |-> "pong", echo |-> input.echo]

\* Mutant: the timestamp taken from the module's start time.
LogHandlerStartTime(input) == [logged |-> TRUE, timestamp |-> startTime]

\* log: baseProcedure.input(pingInputSchema).mutation(({input}) => ...)
LogHandler(input) == [logged |-> TRUE, timestamp |-> now]

\* The line health.log writes: `[Health Log] ${input.echo ?? "No message"}`.
LogLine(input) ==
    IF input.echo = Undefined THEN "[Health Log] No message"
    ELSE "[Health Log] " \o input.echo.v

\* The keys of healthRouter.
healthRouter == { "check", "ping", "log" }

\* appRouter = createTRPCRouter({ health: healthRouter }): the dotted paths.
appRouter == { "health." \o p : p \in healthRouter }

\* The procedures built with .input(pingInputSchema).
HasInputSchema(path) == path \in { "health.ping", "health.log" }

\* Paths a call is tried with: the registered ones and two that are not.
Paths == appRouter \cup { "health.nope", "user.list" }

\* Whether a call of path with input reaches the procedure's handler.
HandlerRuns(path, input) ==
    /\ path \in appRouter
    /\ HasInputSchema(path) => pingInputSchema(input).success

\* Mutant: no lookup failure, an unknown path resolves to nothing.
InvokeNoLookup(path, input) ==
    IF path \notin appRouter
    THEN [ok |-> TRUE, data |-> Undefined]
    ELSE IF HasInputSchema(path) /\ ~pingInputSchema(input).success
    THEN [ok |-> FALSE, code |-> "BAD_REQUEST", path |-> path,
          issuePath |-> pingInputSchema(input).issuePath]
    ELSE IF path = "health.check" THEN [ok |-> TRUE, data |-> CheckHandler]
    ELSE IF path = "health.ping"
    THEN [ok |-> TRUE, data |-> PingHandler(pingInputSchema(input).data)]
    ELSE [ok |-> TRUE, data |-> LogHandler(pingInputSchema(input).data)]

\* One procedure call, as the caller and the network endpoint resolve it:
\* lookup by exact dotted path, then the input parser, then the handler.
Invoke(path, input) ==
    IF path \notin appRouter
    THEN [ok |-> FALSE, code |-> "NOT_FOUND", path |-> path, issuePath |-> <<>>]
    ELSE IF HasInputSchema(path) /\ ~pingInputSchema(input).success
    THEN [ok |-> FALSE, code |-> "BAD_REQUEST", path |-> path,
          issuePath |-> pingInputSchema(input).issuePath]
    ELSE IF path = "health.check" THEN [ok |-> TRUE, data |-> CheckHandler]
    ELSE IF path = "health.ping"
    THEN [ok |-> TRUE, data |-> PingHandler(pingInputSchema(input).data)]
    ELSE [ok |-> TRUE, data |-> LogHandler(pingInputSchema(input).data)]

\* Mutant: the handler runs before its input is validated.
CountHandlerUnvalidated(path, input) ==
    IF path \in appRouter
    THEN [handlerCalls EXCEPT ![path] = @ + 1]
    ELSE handlerCalls

\* The effects of one procedure call on the process: the handler counter
\* and, for health.log, the console.
CountHandler(path, input) ==
    IF HandlerRuns(path, input)
    THEN [handlerCalls EXCEPT ![path] = @ + 1]
    ELSE handlerCalls

WriteConsole(path, input) ==
    IF path = "health.log" /\ HandlerRuns(path, input)
    THEN Append(consoleLog, LogLine(pingInputSchema(input).data))
    ELSE consoleLog

\* ------------------------------------------------------------ the bridge
Renders == 1..NumRenders
ClientIds == 1..NumRenders
NoClient == 0

\* What trpc.<path>.queryOptions(input) / infiniteQueryOptions(input) hand
\* to prefetch: the procedure the queryFn calls, and the queryKey
\* [path, { input, type }] (its second element is absent for a bare path key).
QueryOptions(k) ==
    CASE k = "check" ->
           [path |-> "health.check", input |-> Undefined,
            queryKey |-> << "health.check", [type |-> "query"] >>]
      [] k = "pingInfinite" ->
           [path |-> "health.ping", input |-> Obj(Str("hi")),
            queryKey |-> << "health.ping",
                            [input |-> Obj(Str("hi")), type |-> "infinite"] >>]
      [] k = "pingBadInput" ->
           [path |-> "health.ping", input |-> Obj(Num(42)),
            queryKey |-> << "health.ping",
                            [input |-> Obj(Num(42)), type |-> "query"] >>]
      [] k = "pingNoType" ->
           [path |-> "health.ping", input |-> Obj(Undefined),
            queryKey |-> << "health.ping", [input |-> Obj(Undefined)] >>]
      [] k = "unregistered" ->
           [path |-> "health.nope", input |-> Undefined,
            queryKey |-> << "health.nope" >>]

Keys == { "check", "pingInfinite", "pingBadInput", "pingNoType", "unregistered" }

NoData == [t |-> "nodata"]
IdleEntry == [status |-> "idle", routines |-> {}, data |-> NoData]
Absent == [status |-> "absent", data |-> NoData]

\* Mutant: any type tag on the key counts as infinite.
IsInfiniteAnyType(queryOptions) ==
    /\ Len(queryOptions.queryKey) >= 2
    /\ "type" \in DOMAIN queryOptions.queryKey[2]

\* (queryOptions.queryKey[1] as any)?.type === "infinite"
\* (queryKey[1] of the code is the second element, queryKey[2] here).
IsInfinite(queryOptions) ==
    /\ Len(queryOptions.queryKey) >= 2
    /\ "type" \in DOMAIN queryOptions.queryKey[2]
    /\ queryOptions.queryKey[2].type = "infinite"

\* The routines prefetch starts for queryOptions on the query client.
Routines(queryOptions) ==
    IF IsInfinite(queryOptions)
    THEN { "prefetchInfiniteQuery" }
    ELSE { "prefetchQuery" }

\* Mutant: the client memoized per process, not per render.
ScopeProcess(r) == 1

\* The memoization key of cache(makeQueryClient): the current render.
Scope(r) == r

\* makeQueryClient(): a new query client with an empty cache.
makeQueryClient == nextClient + 1

\* getQueryClient = cache(makeQueryClient): the client memoized for the
\* scope, made on the first call.
getQueryClient(r) ==
    IF memo[Scope(r)] # NoClient THEN memo[Scope(r)] ELSE makeQueryClient

\* The memo table after a getQueryClient() call of render r.
Memoize(r) ==
    /\ memo' = [memo EXCEPT ![Scope(r)] = getQueryClient(r)]
    /\ nextClient' = IF getQueryClient(r) = makeQueryClient
                     THEN nextClient + 1 ELSE nextClient
    /\ returned' = [returned EXCEPT ![r] = @ \cup { getQueryClient(r) }]

\* The entry of a cache after prefetchQuery / prefetchInfiniteQuery was
\* started for key k: the fetch is in flight when the routine returns.
StartFetch(cache, k) ==
    [cache EXCEPT ![k] = [status |-> "pending",
                          routines |-> @.routines \cup Routines(QueryOptions(k)),
                          data |-> NoData]]

\* Mutant: a failing fetch cancels the other fetches in flight.
SettleFetchCancelSiblings(cache, k, res) ==
    [j \in Keys |->
        IF j = k
        THEN [status |-> IF res.ok THEN "success" ELSE "error",
              routines |-> cache[j].routines,
              data |-> IF res.ok THEN res.data ELSE NoData]
        ELSE IF ~res.ok /\ cache[j].status = "pending"
        THEN [cache[j] EXCEPT !.status = "idle"]
        ELSE cache[j]]

\* The cache after the fetch of key k settled with result res. The
\* routines are started independently (void ...): only k's entry changes.
SettleFetch(cache, k, res) ==
    [cache EXCEPT ![k] = [status |-> IF res.ok THEN "success" ELSE "error",
                          routines |-> @.routines,
                          data |-> IF res.ok THEN res.data ELSE NoData]]

\* Mutant: the routine's rejection reaches the page handler.
PageFailedAfterAwait(r, res) == pageFailed[r] \/ ~res.ok

\* Whether the page handler has failed after a fetch settled with res:
\* the routine's promise is discarded (void), and prefetchQuery never
\* rejects, so a failure does not reach the page handler.
PageFailedAfter(r, res) == pageFailed[r]

\* Which queries dehydrate() includes.
ShouldDehydrateQuery(entry) == entry.status = "success"

\* Mutant: a query client made anew is dehydrated, not the render's.
dehydrateFresh(cache) == [k \in Keys |-> Absent]

\* dehydrate(queryClient): the cache as it is now, serialized.
dehydrate(cache) ==
    [k \in Keys |-> IF ShouldDehydrateQuery(cache[k])
                    THEN [status |-> cache[k].status, data |-> cache[k].data]
                    ELSE Absent]

\* The browser's cache once HealthStatus-like components have mounted
\* useQuery on the keys: hydrated data is shown, a key without hydrated
\* data is fetched by the browser itself.
MountQueries(state) ==
    [k \in Keys |-> IF state[k].status = "success" THEN "hydrated" ELSE "fetching"]

\* The number of prefetch calls made so far, over all renders.
TotalIssued == Cardinality({ rk \in Renders \X Keys : rk[2] \in issued[rk[1]] })

BridgeInit ==
    /\ memo = [s \in Renders |-> NoClient]
    /\ nextClient = 0
    /\ caches = [c \in ClientIds |-> [k \in Keys |-> IdleEntry]]
    /\ pc = [r \in Renders |-> "page"]
    /\ issued = [r \in Renders |-> {}]
    /\ returned = [r \in Renders |-> {}]
    /\ pageFailed = [r \in Renders |-> FALSE]
    /\ snapshot = [r \in Renders |-> [k \in Keys |-> Absent]]
    /\ client = [r \in Renders |-> [k \in Keys |-> "none"]]

ProcInit ==
    /\ startTime \in { 0, 1700 }
    /\ now = startTime
    /\ envVersion \in { Undefined, Str("1.4.2"), Str("") }
    /\ handlerCalls = [p \in appRouter |-> 0]
    /\ consoleLog = <<>>
    /\ calls = 0
    /\ lastCall = NoCall
    /\ lastCheck = NoResult
    /\ prevCheck = NoResult

Init == ProcInit /\ BridgeInit

\* The renders are explored in a process started at time 0 without a
\* package version in its environment.
RenderInit == Init /\ startTime = 0 /\ envVersion = Undefined

\* ------------------------------------------------ actions of the process
\* Date.now() advances.
Tick ==
    /\ now - startTime < MaxTicks * TickMs
    /\ now' = now + TickMs
    /\ UNCHANGED <<startTime, envVersion, handlerCalls, consoleLog, calls,
                   lastCall, lastCheck, prevCheck>>
    /\ UNCHANGED bridgeVars

\* caller.<path>(input), or one call at the network endpoint.
Call(path, input) ==
    /\ calls < MaxCalls
    /\ calls' = calls + 1
    /\ lastCall' = [path |-> path, input |-> input,
                    result |-> Invoke(path, input), at |-> now,
                    handlerBefore |-> handlerCalls]
    /\ handlerCalls' = CountHandler(path, input)
    /\ consoleLog' = WriteConsole(path, input)
    /\ IF path = "health.check"
       THEN /\ lastCheck' = Invoke(path, input)
            /\ prevCheck' = lastCheck
       ELSE UNCHANGED <<lastCheck, prevCheck>>
    /\ UNCHANGED <<startTime, now, envVersion>>
    /\ UNCHANGED bridgeVars

\* ------------------------------------------------- actions of the bridge
\* The page handler calls prefetch(queryOptions) for key k.
Prefetch(r, k) ==
    /\ pc[r] = "page"
    /\ ~pageFailed[r]
    /\ TotalIssued < MaxPrefetch
    /\ k \notin issued[r]
    /\ Memoize(r)
    /\ caches' = [caches EXCEPT ![getQueryClient(r)] = StartFetch(@, k)]
    /\ issued' = [issued EXCEPT ![r] = @ \cup {k}]
    /\ UNCHANGED <<pc, pageFailed, snapshot, client>>
    /\ UNCHANGED procVars

\* The fetch a prefetch of render r started for key k settles: its queryFn
\* has called the procedure through the router.
Settle(r, k) ==
    /\ k \in issued[r]
    /\ memo[Scope(r)] # NoClient
    /\ caches[memo[Scope(r)]][k].status = "pending"
    /\ LET qo == QueryOptions(k)
           res == Invoke(qo.path, qo.input)
       IN /\ caches' = [caches EXCEPT ![memo[Scope(r)]] = SettleFetch(@, k, res)]
          /\ pageFailed' = [pageFailed EXCEPT ![r] = PageFailedAfter(r, res)]
          /\ handlerCalls' = CountHandler(qo.path, qo.input)
          /\ consoleLog' = WriteConsole(qo.path, qo.input)
    /\ UNCHANGED <<memo, nextClient, pc, issued, returned, snapshot, client>>
    /\ UNCHANGED <<startTime, now, envVersion, calls, lastCall, lastCheck, prevCheck>>

\* The page handler has returned its tree and HydrateClient renders:
\* dehydrate(getQueryClient()) is embedded in the output.
HydrateClient(r) ==
    /\ pc[r] = "page"
    /\ ~pageFailed[r]
    /\ Memoize(r)
    /\ snapshot' = [snapshot EXCEPT ![r] = dehydrate(caches[getQueryClient(r)])]
    /\ pc' = [pc EXCEPT ![r] = "hydrated"]
    /\ UNCHANGED <<caches, issued, pageFailed, client>>
    /\ UNCHANGED procVars

\* The browser hydrates its cache from the snapshot and mounts the client
\* component.
ClientMount(r) ==
    /\ pc[r] = "hydrated"
    /\ client' = [client EXCEPT ![r] = MountQueries(snapshot[r])]
    /\ pc' = [pc EXCEPT ![r] = "mounted"]
    /\ UNCHANGED <<memo, nextClient, caches, issued, returned, pageFailed, snapshot>>
    /\ UNCHANGED procVars

ProcNext ==
    \/ Tick
    \/ \E path \in Paths, input \in Inputs : Call(path, input)

Next ==
    \/ \E r \in Renders, k \in Keys : Prefetch(r, k)
    \/ \E r \in Renders, k \in Keys : Settle(r, k)
    \/ \E r \in Renders : HydrateClient(r)
    \/ \E r \in Renders : ClientMount(r)

\* The bridge: concurrent renders.
Spec == RenderInit /\ [][Next]_vars

\* One page that prefetches, rendered while the other renders are of
\* pages without prefetches.
PageNext ==
    \/ \E k \in Keys : Prefetch(1, k)
    \/ \E r \in Renders, k \in Keys : Settle(r, k)
    \/ \E r \in Renders : HydrateClient(r)
    \/ \E r \in Renders : ClientMount(r)

\* That page, with the event loop running a settlement whenever one is
\* due (the handlers are synchronous, the continuations always scheduled).
FairSpec ==
    /\ RenderInit
    /\ [][PageNext]_vars
    /\ WF_vars(\E r \in Renders, k \in Keys : Settle(r, k))

\* The procedures, called directly, with the clock advancing.
ProcSpec == Init /\ [][ProcNext]_vars

\* ===================================================== the procedures
\* Whether an input fails z.object({ echo: z.string().optional() }), stated
\* on the value itself.
FailsSchema(input) ==
    \/ input.t # "object"
    \/ input.echo.t \notin { "undefined", "string" }

\* The field a failing input fails at: echo, or the input as a whole.
FailingField(input) == IF input.t = "object" THEN <<"echo">> ELSE <<>>

\* C4: for health.ping and health.log, a call whose input fails the input
\* schema ends in a validation error (BAD_REQUEST) that names the failing
\* field, and no handler has been invoked by it: every handler counter is
\* what it was before the call.
C4_InvalidInputShortCircuits ==
    ( /\ lastCall # NoCall
      /\ lastCall.path \in { "health.ping", "health.log" }
      /\ FailsSchema(lastCall.input) )
    => /\ lastCall.result.ok = FALSE
       /\ lastCall.result.code = "BAD_REQUEST"
       /\ lastCall.result.issuePath = FailingField(lastCall.input)
       /\ handlerCalls = lastCall.handlerBefore

C4_Witness ==
    /\ lastCall # NoCall
    /\ lastCall.path = "health.log"
    /\ lastCall.input = Obj(Num(42))
    /\ lastCall.result.code = "BAD_REQUEST"
    /\ handlerCalls["health.ping"] > 0

\* C5 (as stated): health.ping with {echo: s} returns {message: "pong",
\* echo: s}, and health.ping with no input at all returns
\* {message: "pong", echo: undefined}.
C5_Original ==
    ( /\ lastCall # NoCall
      /\ lastCall.path = "health.ping"
      /\ lastCall.input \in { Obj(Str("hi")), Undefined } )
    => /\ lastCall.result.ok
       /\ lastCall.result.data =
            [message |-> "pong",
             echo |-> IF lastCall.input = Undefined THEN Undefined
                      ELSE lastCall.input.echo]

\* C5 (amended): health.ping with {echo: s} returns {message: "pong",
\* echo: s}; with an object that has no echo it returns {message: "pong",
\* echo: undefined}; with no input at all it ends in a validation error
\* (BAD_REQUEST at the root of the input) and the handler is not invoked.
C5_PingResult ==
    ( /\ lastCall # NoCall
      /\ lastCall.path = "health.ping" )
    => /\ lastCall.input = Obj(Str("hi")) =>
            /\ lastCall.result.ok
            /\ lastCall.result.data = [message |-> "pong", echo |-> Str("hi")]
       /\ lastCall.input = Obj(Undefined) =>
            /\ lastCall.result.ok
            /\ lastCall.result.data = [message |-> "pong", echo |-> Undefined]
       /\ lastCall.input = Undefined =>
            /\ ~lastCall.result.ok
            /\ lastCall.result.code = "BAD_REQUEST"
            /\ lastCall.result.issuePath = <<>>
            /\ handlerCalls = lastCall.handlerBefore

C5_Witness ==
    /\ lastCall # NoCall
    /\ lastCall.path = "health.ping"
    /\ lastCall.input = Undefined
    /\ lastCall.result.code = "BAD_REQUEST"
    /\ handlerCalls["health.ping"] = 1

\* C6 (as stated): health.log never ends in an error: with {echo: s}, with
\* an object lacking echo and with no input at all it returns
\* {logged: true, timestamp: <Date>}.
C6_Original ==
    ( /\ lastCall # NoCall
      /\ lastCall.path = "health.log"
      /\ lastCall.input \in { Obj(Str("hi")), Obj(Undefined), Undefined } )
    => /\ lastCall.result.ok
       /\ lastCall.result.data.logged = TRUE

\* C6 (amended): health.log with {echo: s} or with an object lacking echo
\* returns {logged: true, timestamp: <the time of the call>} and writes one
\* console line; with no input at all it ends in a validation error
\* (BAD_REQUEST), writes nothing and does not invoke the handler.
C6_LogResult ==
    ( /\ lastCall # NoCall
      /\ lastCall.path = "health.log" )
    => /\ lastCall.input \in { Obj(Str("hi")), Obj(Undefined) } =>
            /\ lastCall.result.ok
            /\ lastCall.result.data.logged = TRUE
            /\ lastCall.result.data.timestamp = lastCall.at
            /\ handlerCalls["health.log"] = lastCall.handlerBefore["health.log"] + 1
            /\ Len(consoleLog) = handlerCalls["health.log"]
            /\ consoleLog[Len(consoleLog)] =
                 IF lastCall.input = Obj(Undefined)
                 THEN "[Health Log] No message" ELSE "[Health Log] hi"
       /\ lastCall.input = Undefined =>
            /\ ~lastCall.result.ok
            /\ lastCall.result.code = "BAD_REQUEST"
            /\ handlerCalls = lastCall.handlerBefore
            /\ Len(consoleLog) = handlerCalls["health.log"]

C6_Witness ==
    /\ lastCall # NoCall
    /\ lastCall.path = "health.log"
    /\ lastCall.input = Undefined
    /\ ~lastCall.result.ok
    /\ Len(consoleLog) = 1

\* C7: every health.check call returns status "ok", the package version
\* of the process ("0.0.1" when it is unset) and an integer uptime >= 0,
\* and a later call never returns a smaller uptime than an earlier one.
C7_CheckResult ==
    /\ lastCheck # NoResult =>
         /\ lastCheck.ok
         /\ lastCheck.data.status = "ok"
         /\ lastCheck.data.version =
              (IF envVersion = Undefined THEN "0.0.1" ELSE envVersion.v)
         /\ lastCheck.data.uptime \in Nat
         /\ lastCheck.data.uptime * 1000 <= now - startTime
    /\ prevCheck # NoResult =>
         lastCheck.data.uptime >= prevCheck.data.uptime

C7_Witness ==
    /\ prevCheck # NoResult
    /\ lastCheck # NoResult
    /\ prevCheck.data.uptime = 0
    /\ lastCheck.data.uptime = 2
    /\ lastCheck.data.version = "0.0.1"

\* C8: a call of a dotted path other than health.check, health.ping and
\* health.log ends in a NOT_FOUND error result, never in a success, and
\* runs no handler.
C8_UnregisteredPathNotFound ==
    ( /\ lastCall # NoCall
      /\ lastCall.path \notin { "health.check", "health.ping", "health.log" } )
    => /\ lastCall.result.ok = FALSE
       /\ lastCall.result.code = "NOT_FOUND"
       /\ handlerCalls = lastCall.handlerBefore

C8_Witness ==
    /\ lastCall # NoCall
    /\ lastCall.path = "user.list"
    /\ lastCall.result.code = "NOT_FOUND"
    /\ calls = 2

\* ========================================================== the bridge
\* The query client of render r, once getQueryClient() has made it.
ClientOf(r) == memo[Scope(r)]

HasClient(r) == ClientOf(r) # NoClient

\* The entry of key k in the cache of render r.
EntryOf(r, k) == IF HasClient(r) THEN caches[ClientOf(r)][k] ELSE IdleEntry

\* C1: concurrent renders get different cache instances from
\* getQueryClient(), every call inside one render gets that render's one
\* instance, and a snapshot holds no entry another render's prefetch wrote:
\* whatever a render's snapshot holds, that render prefetched.
C1_CachePerRender ==
    /\ \A r \in Renders : Cardinality(returned[r]) <= 1
    /\ \A r1, r2 \in Renders :
         r1 # r2 => returned[r1] \cap returned[r2] = {}
    /\ \A r \in Renders, k \in Keys :
         snapshot[r][k] # Absent => k \in issued[r]

C1_Witness ==
    /\ pc[1] = "hydrated"
    /\ pc[2] = "hydrated"
    /\ issued[1] = { "check" }
    /\ issued[2] = { "pingInfinite" }
    /\ snapshot[1]["check"].status = "success"
    /\ snapshot[2]["pingInfinite"].status = "success"
    /\ returned[1] # returned[2]

C3_FailedPrefetchKeepsPage ==
    \A r \in Renders, k \in Keys :
        (k \in issued[r] /\ HasClient(r) /\ EntryOf(r, k).status = "error")
        => /\ ~pageFailed[r]
           /\ pc[r] = "page" => ENABLED HydrateClient(r)
           /\ pc[r] # "page" => snapshot[r][k].data = NoData
           /\ pc[r] = "mounted" => client[r][k] = "fetching"

C3_Witness ==
    \E r \in Renders :
        /\ pc[r] = "mounted"
        /\ issued[r] = { "pingBadInput", "check" }
        /\ EntryOf(r, "pingBadInput").status = "error"
        /\ snapshot[r]["pingBadInput"] = Absent
        /\ snapshot[r]["check"].status = "success"
        /\ client[r]["pingBadInput"] = "fetching"
        /\ client[r]["check"] = "hydrated"

\* The keys whose queryKey carries type "infinite" in its second element.
InfiniteKeys == { "pingInfinite" }

\* C9: a prefetch starts exactly one routine on the render's cache, the
\* infinite-query routine iff the key's second element has type
\* "infinite", else the plain one, and returns with the fetch in flight.
C9_PrefetchDispatch ==
    /\ [](\A c \in ClientIds, k \in Keys :
            caches[c][k].status # "idle" =>
                caches[c][k].routines =
                    (IF k \in InfiniteKeys THEN { "prefetchInfiniteQuery" }
                     ELSE { "prefetchQuery" }))
    /\ [][ \A r \in Renders, k \in Keys :
             (k \notin issued[r] /\ k \in issued'[r])
             => /\ returned'[r] = { memo'[r] }
                /\ caches'[memo'[r]][k].status = "pending"
                /\ Cardinality(caches'[memo'[r]][k].routines) = 1
                /\ \A c \in ClientIds \ { memo'[r] } : caches'[c] = caches[c] ]_vars

C9_Witness ==
    \E r \in Renders :
        /\ pc[r] = "page"
        /\ issued[r] = { "pingInfinite", "unregistered" }
        /\ EntryOf(r, "pingInfinite").routines = { "prefetchInfiniteQuery" }
        /\ EntryOf(r, "pingInfinite").status = "pending"
        /\ EntryOf(r, "unregistered").routines = { "prefetchQuery" }
        /\ EntryOf(r, "unregistered").status = "pending"

\* The queries whose procedure call fails: invalid input, unknown path.
FailingKeys == { "pingBadInput", "unregistered" }

\* C10: in a render with several prefetches in flight, a prefetch that
\* fails changes no other entry of the cache, and every prefetch in flight
\* eventually settles with its own outcome, whatever the others did.
C10_SiblingsSettle ==
    /\ [][ \A r \in Renders, k \in Keys :
             ( /\ HasClient(r)
               /\ EntryOf(r, k).status = "pending"
               /\ caches'[ClientOf(r)][k].status = "error" )
             => \A j \in Keys \ {k} :
                  caches'[ClientOf(r)][j] = caches[ClientOf(r)][j] ]_vars
    /\ \A r \in Renders, k \in Keys :
         (k \in issued[r] /\ EntryOf(r, k).status = "pending")
         ~> (EntryOf(r, k).status =
               IF k \in FailingKeys THEN "error" ELSE "success")

C10_Witness ==
    \E r \in Renders :
        /\ issued[r] = { "unregistered", "pingNoType" }
        /\ EntryOf(r, "unregistered").status = "error"
        /\ EntryOf(r, "pingNoType").status = "success"
        /\ pc[r] = "page"

=============================================================================
